---- MODULE Spec2Model ----
(***************************************************************************)
(* The keyword index of ecl_file.c: the global map built by one scan of    *)
(* the stream, the block maps derived from it, and the active map which    *)
(* serves all queries.                                                     *)
(*                                                                         *)
(* Positions and occurrence numbers are 0-based as in the C code; the      *)
(* vectors are TLA+ sequences, so element i of a vector v is v[i + 1].     *)
(* An ecl_file_kw instance is the record [header, offset]; the offset is   *)
(* the stream position of its header and identifies the instance.          *)
(* Maps live in heap, a function from map addresses to map structs.        *)
(***************************************************************************)
EXTENDS Integers, Sequences, FiniteSets, Bags, TLC

\* Bounds of the model.
MaxLen  == 3        \* complete records in the stream
MaxMaps == 3        \* maps held in map_list (global map included)
MaxMapsIO == 2      \* maps of a file in SpecIO

\* The headers which occur in the streams, and the one of a cut-off record.
Names     == {"SEQHDR", "MINISTEP"}
CutHeader == "<cut>"

\* Arguments of the calls: keyword names (one of them in no stream) and
\* occurrence numbers (int).
Keywords   == Names \cup {"PARAMS"}
Occurences == -1 .. MaxLen

NULL  == 0          \* the NULL map pointer
ABORT == -1         \* an int result which stands for util_abort()

VARIABLES fortio,      \* the stream: the sequence of record headers
          pc,          \* "unopened", "ready", "aborted", "closed", "leaked"
                       \* (open, but no pointer returned) or "crashed"
          heap,        \* map address -> ecl_file_map struct
          map_list,    \* ecl_file->map_list: vector of map addresses
          global_map,  \* ecl_file->global_map
          active_map,  \* ecl_file->active_map
          ret,         \* the last call and what it returned
          loaded,      \* offsets of the ecl_file_kw whose ecl_kw is loaded
          target,      \* the keywords which the last call wrote
          frees        \* bag of the objects freed or closed

vars == <<fortio, pc, heap, map_list, global_map, active_map, ret,
          loaded, target, frees>>

----------------------------------------------------------------------------
\* Containers of libutil.

EmptyHash == [k \in {} |-> <<>>]

hash_has_key(hash, key) == key \in DOMAIN hash

hash_insert(hash, key, value) ==
  [k \in DOMAIN hash \cup {key} |-> IF k = key THEN value ELSE hash[k]]

vector_get_size(vector) == Len(vector)

\* What a call which ends in util_abort() hands back in place of a keyword.
AbortKw == [header |-> "<abort>", offset |-> ABORT]

vector_iget(vector, index) ==
  IF index >= 0 /\ index < Len(vector) THEN vector[index + 1] ELSE AbortKw

int_vector_iget(vector, index) ==
  IF index >= 0 /\ index < Len(vector) THEN vector[index + 1] ELSE ABORT

\* ecl_file_kw instances.
ecl_file_kw_alloc(header, offset) == [header |-> header, offset |-> offset]

ecl_file_kw_get_header(file_kw) == file_kw.header

----------------------------------------------------------------------------
\* The ecl_file_map functions.

ecl_file_map_alloc(owner) ==
  [kw_list |-> <<>>, kw_index |-> EmptyHash, distinct_kw |-> <<>>, owner |-> owner]

\* The occurrence number taken for the position.
ecl_file_map_get_global_index_ith(file_map, kw, ith) ==
  IF hash_has_key(file_map.kw_index, kw) /\ ith >= 0 /\ ith < Len(file_map.kw_index[kw])
  THEN ith
  ELSE ABORT

ecl_file_map_get_global_index(file_map, kw, ith) ==
  IF hash_has_key(file_map.kw_index, kw)
  THEN int_vector_iget(file_map.kw_index[kw], ith)
  ELSE ABORT

\* The index built from the file offsets of the keywords instead of their
\* positions in kw_list.
RECURSIVE make_index_loop_offsets(_, _, _, _)
make_index_loop_offsets(kw_list, i, kw_index, distinct_kw) ==
  IF ~(i < vector_get_size(kw_list))
  THEN [kw_index |-> kw_index, distinct_kw |-> distinct_kw]
  ELSE LET header    == ecl_file_kw_get_header(vector_iget(kw_list, i))
           new       == ~hash_has_key(kw_index, header)
           index1    == IF new THEN hash_insert(kw_index, header, <<>>) ELSE kw_index
           distinct1 == IF new THEN Append(distinct_kw, header) ELSE distinct_kw
           index2    == [index1 EXCEPT ![header] = Append(@, vector_iget(kw_list, i).offset)]
       IN  make_index_loop_offsets(kw_list, i + 1, index2, distinct1)

\* The index whose distinct_kw gets the header of every keyword.
RECURSIVE make_index_loop_repeating(_, _, _, _)
make_index_loop_repeating(kw_list, i, kw_index, distinct_kw) ==
  IF ~(i < vector_get_size(kw_list))
  THEN [kw_index |-> kw_index, distinct_kw |-> distinct_kw]
  ELSE LET header    == ecl_file_kw_get_header(vector_iget(kw_list, i))
           new       == ~hash_has_key(kw_index, header)
           index1    == IF new THEN hash_insert(kw_index, header, <<>>) ELSE kw_index
           distinct1 == Append(distinct_kw, header)
           index2    == [index1 EXCEPT ![header] = Append(@, i)]
       IN  make_index_loop_repeating(kw_list, i + 1, index2, distinct1)

RECURSIVE make_index_loop(_, _, _, _)
make_index_loop(kw_list, i, kw_index, distinct_kw) ==
  IF ~(i < vector_get_size(kw_list))
  THEN [kw_index |-> kw_index, distinct_kw |-> distinct_kw]
  ELSE LET header    == ecl_file_kw_get_header(vector_iget(kw_list, i))
           new       == ~hash_has_key(kw_index, header)
           index1    == IF new THEN hash_insert(kw_index, header, <<>>) ELSE kw_index
           distinct1 == IF new THEN Append(distinct_kw, header) ELSE distinct_kw
           index2    == [index1 EXCEPT ![header] = Append(@, i)]
       IN  make_index_loop(kw_list, i + 1, index2, distinct1)

ecl_file_map_make_index(file_map) ==
  LET r == make_index_loop(file_map.kw_list, 0, EmptyHash, <<>>)
  IN  [file_map EXCEPT !.kw_index = r.kw_index, !.distinct_kw = r.distinct_kw]

ecl_file_map_has_kw(file_map, kw) == hash_has_key(file_map.kw_index, kw)

ecl_file_map_iget_file_kw(file_map, global_index) ==
  vector_iget(file_map.kw_list, global_index)

ecl_file_map_iget_distinct_kw(file_map, index) == file_map.distinct_kw[index + 1]

ecl_file_map_get_num_distinct_kw(file_map) == Len(file_map.distinct_kw)

ecl_file_map_get_size(file_map) == vector_get_size(file_map.kw_list)

ecl_file_map_iget_header(file_map, index) ==
  ecl_file_kw_get_header(ecl_file_map_iget_file_kw(file_map, index))

ecl_file_map_add_kw(file_map, file_kw) ==
  [file_map EXCEPT !.kw_list = Append(@, file_kw)]

\* The count which is 1 for every name the map holds.
ecl_file_map_get_num_named_kw_once(file_map, kw) ==
  IF hash_has_key(file_map.kw_index, kw) THEN 1 ELSE 0

ecl_file_map_get_num_named_kw(file_map, kw) ==
  IF hash_has_key(file_map.kw_index, kw)
  THEN Len(file_map.kw_index[kw])
  ELSE 0

\* The reverse lookup which keeps the index found instead of its number.
RECURSIVE iget_occurence_loop_position(_, _, _, _)
iget_occurence_loop_position(index_vector, global_index, i, occurence) ==
  IF ~(i < Len(index_vector))
  THEN occurence
  ELSE iget_occurence_loop_position(index_vector, global_index, i + 1,
         IF index_vector[i + 1] = global_index THEN index_vector[i + 1] ELSE occurence)

RECURSIVE iget_occurence_loop(_, _, _, _)
iget_occurence_loop(index_vector, global_index, i, occurence) ==
  IF ~(i < Len(index_vector))
  THEN occurence
  ELSE iget_occurence_loop(index_vector, global_index, i + 1,
                           IF index_vector[i + 1] = global_index THEN i ELSE occurence)

ecl_file_map_iget_occurence(file_map, global_index) ==
  IF global_index < 0 \/ global_index >= vector_get_size(file_map.kw_list)
  THEN ABORT
  ELSE LET header == ecl_file_kw_get_header(vector_iget(file_map.kw_list, global_index))
       IN  IF ~hash_has_key(file_map.kw_index, header)
           THEN ABORT
           ELSE iget_occurence_loop(file_map.kw_index[header], global_index, 0, -1)

\* The loop with the header compared after the keyword is added: the block
\* takes the next delimiter with it.
RECURSIVE blockmap_loop_inclusive(_, _, _, _)
blockmap_loop_inclusive(file_map, header, kw_index, block_map) ==
  LET added == ecl_file_map_add_kw(block_map, vector_iget(file_map.kw_list, kw_index))
      next  == kw_index + 1
  IN  IF next = vector_get_size(file_map.kw_list)
      THEN added
      ELSE IF Len(block_map.kw_list) > 0
              /\ ecl_file_kw_get_header(vector_iget(file_map.kw_list, kw_index)) = header
           THEN added
           ELSE blockmap_loop_inclusive(file_map, header, next, added)

\* The while (true) loop of ecl_file_map_alloc_blockmap, entered with
\* file_kw = kw_list[kw_index].
RECURSIVE blockmap_loop(_, _, _, _)
blockmap_loop(file_map, header, kw_index, block_map) ==
  LET added == ecl_file_map_add_kw(block_map, vector_iget(file_map.kw_list, kw_index))
      next  == kw_index + 1
  IN  IF next = vector_get_size(file_map.kw_list)
      THEN added
      ELSE IF ecl_file_kw_get_header(vector_iget(file_map.kw_list, next)) = header
           THEN added
           ELSE blockmap_loop(file_map, header, next, added)

\* The block map which runs from the occurrence to the end of the file: the
\* loop is given a header which no keyword has.
ecl_file_map_alloc_blockmap_to_end(file_map, header, occurence) ==
  IF ecl_file_map_get_num_named_kw(file_map, header) > occurence
  THEN LET block_map == ecl_file_map_alloc(FALSE)
       IN  IF ecl_file_map_has_kw(file_map, header)
           THEN LET kw_index == ecl_file_map_get_global_index(file_map, header, occurence)
                IN  IF kw_index = ABORT
                    THEN [status |-> "abort", map |-> block_map]
                    ELSE [status |-> "ok",
                          map |-> ecl_file_map_make_index(
                                    blockmap_loop(file_map, AbortKw.header, kw_index, block_map))]
           ELSE [status |-> "ok", map |-> ecl_file_map_make_index(block_map)]
  ELSE [status |-> "null", map |-> ecl_file_map_alloc(FALSE)]

\* The result is [status, map]: "ok" with the new block map, "null" for the
\* NULL return, "abort" when the index lookup aborts.
ecl_file_map_alloc_blockmap(file_map, header, occurence) ==
  IF ecl_file_map_get_num_named_kw(file_map, header) > occurence
  THEN LET block_map == ecl_file_map_alloc(FALSE)
       IN  IF ecl_file_map_has_kw(file_map, header)
           THEN LET kw_index == ecl_file_map_get_global_index(file_map, header, occurence)
                IN  IF kw_index = ABORT
                    THEN [status |-> "abort", map |-> block_map]
                    ELSE [status |-> "ok",
                          map |-> ecl_file_map_make_index(
                                    blockmap_loop(file_map, header, kw_index, block_map))]
           ELSE [status |-> "ok", map |-> ecl_file_map_make_index(block_map)]
  ELSE [status |-> "null", map |-> ecl_file_map_alloc(FALSE)]

----------------------------------------------------------------------------
\* The ecl_file functions.

Seqs(S, n) == UNION {[1 .. m -> S] : m \in 0 .. n}

\* The streams of complete records, and those which end in a record whose
\* header is cut off.
CompleteStreams == Seqs(Names, MaxLen)

TruncatedStreams == {Append(s, CutHeader) : s \in Seqs(Names, MaxLen)}

\* ecl_kw_fread_header() at the cursor: fails at the end of the stream and
\* on a header which is cut off.
ecl_kw_fread_header(stream, cursor) ==
  cursor < Len(stream) /\ stream[cursor + 1] # CutHeader

\* The scan which does not look at what ecl_kw_fread_header() returns.
RECURSIVE scan_loop_unchecked(_, _, _)
scan_loop_unchecked(stream, current_offset, file_map) ==
  IF current_offset < Len(stream)
  THEN scan_loop_unchecked(stream, current_offset + 1,
                 ecl_file_map_add_kw(file_map,
                   ecl_file_kw_alloc(stream[current_offset + 1], current_offset)))
  ELSE file_map

RECURSIVE scan_loop(_, _, _)
scan_loop(stream, current_offset, file_map) ==
  IF ecl_kw_fread_header(stream, current_offset)
  THEN scan_loop(stream, current_offset + 1,
                 ecl_file_map_add_kw(file_map,
                   ecl_file_kw_alloc(stream[current_offset + 1], current_offset)))
  ELSE file_map

ecl_file_scan(stream, file_map) ==
  ecl_file_map_make_index(scan_loop(stream, 0, file_map))

ecl_file_add_map(list, file_map) == Append(list, file_map)

\* The last call: its name, the map pointer and the bool it returned.
Ret(op, blockmap, ok) == [op |-> op, blockmap |-> blockmap, ok |-> ok]

\* The address of the next map allocated: maps are freed at close only.
NewMap == Len(map_list) + 1

\* The block map derived from the active map.
ecl_file_get_blockmap_active(kw, occurence) ==
  LET r == ecl_file_map_alloc_blockmap(heap[active_map], kw, occurence)
  IN  IF r.status = "ok"
      THEN [status   |-> "ok",
            blockmap |-> NewMap,
            heap     |-> [m \in DOMAIN heap \cup {NewMap} |->
                            IF m = NewMap THEN r.map ELSE heap[m]],
            map_list |-> Append(map_list, NewMap)]
      ELSE [status |-> r.status, blockmap |-> NULL, heap |-> heap, map_list |-> map_list]

\* The get_blockmap which hands back a map of map_list with the same
\* keywords when there is one, and makes a new map only otherwise.
ecl_file_get_blockmap_cached(kw, occurence) ==
  LET r     == ecl_file_map_alloc_blockmap(heap[global_map], kw, occurence)
      same  == {m \in DOMAIN heap \ {global_map} : heap[m].kw_list = r.map.kw_list}
  IN  IF r.status = "ok" /\ same # {}
      THEN [status   |-> "ok",
            blockmap |-> CHOOSE m \in same : TRUE,
            heap     |-> heap,
            map_list |-> map_list]
      ELSE IF r.status = "ok"
      THEN [status   |-> "ok",
            blockmap |-> NewMap,
            heap     |-> [m \in DOMAIN heap \cup {NewMap} |->
                            IF m = NewMap THEN r.map ELSE heap[m]],
            map_list |-> ecl_file_add_map(map_list, NewMap)]
      ELSE [status |-> r.status, blockmap |-> NULL, heap |-> heap, map_list |-> map_list]

\* ecl_file_get_blockmap: [status, blockmap, heap, map_list] after the call.
ecl_file_get_blockmap(kw, occurence) ==
  LET r == ecl_file_map_alloc_blockmap(heap[global_map], kw, occurence)
  IN  IF r.status = "ok"
      THEN [status   |-> "ok",
            blockmap |-> NewMap,
            heap     |-> [m \in DOMAIN heap \cup {NewMap} |->
                            IF m = NewMap THEN r.map ELSE heap[m]],
            map_list |-> ecl_file_add_map(map_list, NewMap)]
      ELSE [status |-> r.status, blockmap |-> NULL, heap |-> heap, map_list |-> map_list]

Init ==
  /\ fortio \in CompleteStreams
  /\ pc = "unopened"
  /\ heap = [m \in {} |-> ecl_file_map_alloc(FALSE)]
  /\ map_list = <<>>
  /\ global_map = NULL
  /\ active_map = NULL
  /\ ret = Ret("none", NULL, FALSE)
  /\ loaded = {}
  /\ target = <<>>
  /\ frees = EmptyBag

ecl_file_open ==
  /\ pc = "unopened"
  /\ pc' = "ready"
  /\ global_map' = 1
  /\ map_list' = ecl_file_add_map(map_list, 1)
  /\ heap' = [m \in {1} |-> ecl_file_scan(fortio, ecl_file_map_alloc(TRUE))]
  /\ active_map' = global_map'
  /\ ret' = Ret("open", NULL, TRUE)
  /\ loaded' = {}
  /\ target' = <<>>
  /\ UNCHANGED <<fortio, frees>>

\* The get_block which makes the new map the active map.
get_block_selecting(kw, occurence) ==
  /\ pc = "ready"
  /\ LET g == ecl_file_get_blockmap(kw, occurence)
     IN  /\ g.status = "ok" => Len(map_list) < MaxMaps
         /\ pc' = IF g.status = "abort" THEN "aborted" ELSE pc
         /\ heap' = g.heap
         /\ map_list' = g.map_list
         /\ active_map' = IF g.blockmap # NULL THEN g.blockmap ELSE active_map
         /\ ret' = Ret("get_block", g.blockmap, g.blockmap # NULL)
  /\ target' = <<>>
  /\ UNCHANGED <<fortio, global_map, loaded, frees>>

\* A call of ecl_file_get_blockmap from outside.
get_block(kw, occurence) ==
  /\ pc = "ready"
  /\ LET g == ecl_file_get_blockmap(kw, occurence)
     IN  /\ g.status = "ok" => Len(map_list) < MaxMaps
         /\ pc' = IF g.status = "abort" THEN "aborted" ELSE pc
         /\ heap' = g.heap
         /\ map_list' = g.map_list
         /\ ret' = Ret("get_block", g.blockmap, g.blockmap # NULL)
  /\ target' = <<>>
  /\ UNCHANGED <<fortio, global_map, active_map, loaded, frees>>

\* The select without the test for NULL.
ecl_file_select_block_unchecked(kw, occurence) ==
  /\ pc = "ready"
  /\ LET g == ecl_file_get_blockmap(kw, occurence)
     IN  /\ g.status = "ok" => Len(map_list) < MaxMaps
         /\ pc' = IF g.status = "abort" THEN "aborted" ELSE pc
         /\ heap' = g.heap
         /\ map_list' = g.map_list
         /\ active_map' = g.blockmap
         /\ ret' = Ret("select_block", g.blockmap, g.blockmap # NULL)
  /\ target' = <<>>
  /\ UNCHANGED <<fortio, global_map, loaded, frees>>

ecl_file_select_block(kw, occurence) ==
  /\ pc = "ready"
  /\ LET g == ecl_file_get_blockmap(kw, occurence)
     IN  /\ g.status = "ok" => Len(map_list) < MaxMaps
         /\ pc' = IF g.status = "abort" THEN "aborted" ELSE pc
         /\ heap' = g.heap
         /\ map_list' = g.map_list
         /\ active_map' = IF g.blockmap # NULL THEN g.blockmap ELSE active_map
         /\ ret' = Ret("select_block", g.blockmap, g.blockmap # NULL)
  /\ target' = <<>>
  /\ UNCHANGED <<fortio, global_map, loaded, frees>>

\* The select_global which also drops the block maps from map_list.
ecl_file_select_global_reset ==
  /\ pc = "ready"
  /\ active_map' = global_map
  /\ heap' = [m \in {global_map} |-> heap[m]]
  /\ map_list' = <<global_map>>
  /\ ret' = Ret("select_global", NULL, TRUE)
  /\ target' = <<>>
  /\ UNCHANGED <<fortio, pc, global_map, loaded, frees>>

ecl_file_select_global ==
  /\ pc = "ready"
  /\ active_map' = global_map
  /\ ret' = Ret("select_global", NULL, TRUE)
  /\ target' = <<>>
  /\ UNCHANGED <<fortio, pc, heap, map_list, global_map, loaded, frees>>

\* An object freed (or, for the stream, closed).
Freed(kind, id) == SetToBag({[kind |-> kind, id |-> id]})

\* vector_free() of a kw_list whose elements are owned references.
RECURSIVE vector_free_kw_list(_, _)
vector_free_kw_list(kw_list, i) ==
  IF ~(i < vector_get_size(kw_list))
  THEN EmptyBag
  ELSE Freed("ecl_file_kw", vector_iget(kw_list, i).offset)
         (+) vector_free_kw_list(kw_list, i + 1)

\* The map free which frees the keywords of every map.
ecl_file_map_free_all(maps, file_map) ==
  Freed("ecl_file_map", file_map) (+) vector_free_kw_list(maps[file_map].kw_list, 0)

\* ecl_file_map_free of the map at address file_map: the keywords were
\* appended as owned references by the owner map only (ecl_file_map_add_kw).
ecl_file_map_free(maps, file_map) ==
  Freed("ecl_file_map", file_map)
    (+) (IF maps[file_map].owner
         THEN vector_free_kw_list(maps[file_map].kw_list, 0)
         ELSE EmptyBag)

\* vector_free(map_list): every map is an owned reference of the list.
RECURSIVE vector_free_map_list(_, _, _)
vector_free_map_list(maps, list, i) ==
  IF ~(i < vector_get_size(list))
  THEN EmptyBag
  ELSE ecl_file_map_free(maps, list[i + 1]) (+) vector_free_map_list(maps, list, i + 1)

\* What ecl_file_close frees: the stream, the maps of map_list, the struct.
close_frees(maps, list) ==
  Freed("fortio", 0) (+) vector_free_map_list(maps, list, 0) (+) Freed("ecl_file", 0)

\* The close which frees nothing.
ecl_file_close_kept ==
  /\ pc = "ready"
  /\ pc' = "closed"
  /\ ret' = Ret("close", NULL, TRUE)
  /\ target' = <<>>
  /\ UNCHANGED <<fortio, heap, map_list, global_map, active_map, loaded, frees>>

\* vector_free(map_list) frees every map; the ecl_file struct is freed.
ecl_file_close ==
  /\ pc = "ready"
  /\ pc' = "closed"
  /\ frees' = frees (+) close_frees(heap, map_list)
  /\ heap' = [m \in {} |-> ecl_file_map_alloc(FALSE)]
  /\ map_list' = <<>>
  /\ ret' = Ret("close", NULL, TRUE)
  /\ target' = <<>>
  /\ UNCHANGED <<fortio, global_map, active_map, loaded>>

\* A query (ecl_file_get_size and the like) of a closed ecl_file: the struct
\* was freed and no function tests for it, so the call dereferences a dangling
\* pointer; it returns any value, or the process crashes.
query_after_close ==
  /\ pc = "closed"
  /\ \E value \in BOOLEAN, crash \in BOOLEAN :
       /\ pc' = IF crash THEN "crashed" ELSE "closed"
       /\ ret' = Ret("query", NULL, value)
  /\ UNCHANGED <<fortio, heap, map_list, global_map, active_map, loaded, target, frees>>

\* ecl_file_open_block: ecl_file_open, then ecl_file_select_block; the file
\* is closed when the select returns false, and NULL is returned in every
\* case, so that after a select which succeeded the file stays open and the
\* caller holds no pointer to it.
ecl_file_open_block(kw, occurence) ==
  /\ pc = "unopened"
  /\ LET global == ecl_file_scan(fortio, ecl_file_map_alloc(TRUE))
         opened == [m \in {1} |-> global]
         r      == ecl_file_map_alloc_blockmap(global, kw, occurence)
     IN  /\ global_map' = 1
         /\ IF r.status = "abort"
            THEN /\ pc' = "aborted"
                 /\ heap' = opened
                 /\ map_list' = ecl_file_add_map(<<>>, 1)
                 /\ active_map' = 1
                 /\ frees' = frees
            ELSE IF r.status = "ok"
            THEN /\ pc' = "leaked"
                 /\ heap' = [m \in {1, 2} |-> IF m = 1 THEN global ELSE r.map]
                 /\ map_list' = ecl_file_add_map(ecl_file_add_map(<<>>, 1), 2)
                 /\ active_map' = 2
                 /\ frees' = frees
            ELSE /\ pc' = "closed"
                 /\ heap' = [m \in {} |-> ecl_file_map_alloc(FALSE)]
                 /\ map_list' = <<>>
                 /\ active_map' = 1
                 /\ frees' = frees (+) close_frees(opened, ecl_file_add_map(<<>>, 1))
  /\ ret' = Ret("open_block", NULL, FALSE)
  /\ loaded' = {}
  /\ target' = <<>>
  /\ UNCHANGED fortio

Next ==
  \/ ecl_file_open
  \/ \E kw \in Keywords, occurence \in Occurences : get_block(kw, occurence)
  \/ \E kw \in Keywords, occurence \in Occurences : ecl_file_select_block(kw, occurence)
  \/ ecl_file_select_global
  \/ ecl_file_close

Spec == Init /\ [][Next]_vars

\* The same file opened on a stream which is cut off in a header.
InitTruncated ==
  /\ fortio \in TruncatedStreams
  /\ pc = "unopened"
  /\ heap = [m \in {} |-> ecl_file_map_alloc(FALSE)]
  /\ map_list = <<>>
  /\ global_map = NULL
  /\ active_map = NULL
  /\ ret = Ret("none", NULL, FALSE)
  /\ loaded = {}
  /\ target = <<>>
  /\ frees = EmptyBag

SpecTruncated == InitTruncated /\ [][Next]_vars

\* The file of the indexing illustration: a SEQHDR and three report steps.
ScenarioStream ==
  <<"SEQHDR", "MINISTEP", "PARAMS", "MINISTEP", "PARAMS", "MINISTEP", "PARAMS">>

InitScenario ==
  /\ fortio = ScenarioStream
  /\ pc = "unopened"
  /\ heap = [m \in {} |-> ecl_file_map_alloc(FALSE)]
  /\ map_list = <<>>
  /\ global_map = NULL
  /\ active_map = NULL
  /\ ret = Ret("none", NULL, FALSE)
  /\ loaded = {}
  /\ target = <<>>
  /\ frees = EmptyBag

SpecScenario == InitScenario /\ [][Next]_vars

\* The life of an ecl_file with ecl_file_open_block and with the calls a
\* program can make on a pointer to a closed file.
NextLife ==
  \/ Next
  \/ \E kw \in Keywords, occurence \in Occurences : ecl_file_open_block(kw, occurence)
  \/ query_after_close

SpecLife == Init /\ [][NextLife]_vars

\* The queries of the ecl_file, answered by the active map.
ecl_file_get_num_named_kw(kw) == ecl_file_map_get_num_named_kw(heap[active_map], kw)

\* The occurrence number answered by the global map whatever map is active.
ecl_file_iget_occurence_global(index) == ecl_file_map_iget_occurence(heap[global_map], index)

ecl_file_iget_occurence(index) == ecl_file_map_iget_occurence(heap[active_map], index)

\* The size of the global map whatever map is active.
ecl_file_get_size_global == ecl_file_map_get_size(heap[global_map])

ecl_file_get_size == ecl_file_map_get_size(heap[active_map])

\* The global map asked whatever map is active.
ecl_file_has_kw_global(kw) == ecl_file_map_has_kw(heap[global_map], kw)

ecl_file_has_kw(kw) == ecl_file_map_has_kw(heap[active_map], kw)

ecl_file_get_num_distinct_kw == ecl_file_map_get_num_distinct_kw(heap[active_map])

ecl_file_iget_distinct_kw(index) == ecl_file_map_iget_distinct_kw(heap[active_map], index)

ecl_file_iget_file_kw(global_index) == ecl_file_map_iget_file_kw(heap[active_map], global_index)

\* The named lookup answered by the global map whatever map is active.
ecl_file_iget_named_file_kw_global(kw, ith) ==
  ecl_file_map_iget_file_kw(heap[global_map],
                            ecl_file_map_get_global_index(heap[global_map], kw, ith))

ecl_file_iget_named_file_kw(kw, ith) ==
  ecl_file_map_iget_file_kw(heap[active_map],
                            ecl_file_map_get_global_index(heap[active_map], kw, ith))

\* ecl_file_kw_get_kw: the ecl_kw of the keyword is read from the stream at
\* the first request and kept in the ecl_file_kw; cache is the set of the
\* offsets of the keywords already loaded.
ecl_file_kw_get_kw(file_kw, cache) == cache \cup {file_kw.offset}

\* The write loop which appends a keyword only when it differs from the one
\* written before it.
RECURSIVE fwrite_loop_squeezed(_, _, _)
fwrite_loop_squeezed(kw_list, index, written) ==
  IF ~(index < vector_get_size(kw_list))
  THEN [status |-> "ok", written |-> written]
  ELSE IF vector_iget(kw_list, index) = AbortKw
  THEN [status |-> "abort", written |-> written]
  ELSE fwrite_loop_squeezed(kw_list, index + 1,
         IF written # <<>> /\ written[Len(written)].header = vector_iget(kw_list, index).header
         THEN written
         ELSE Append(written, vector_iget(kw_list, index)))

\* The loop of ecl_file_map_fwrite: ecl_file_kw_fwrite of the keywords at
\* index, index + 1, ...; written is what the target has got so far, each
\* record named by the ecl_file_kw it was written from.
RECURSIVE fwrite_loop(_, _, _)
fwrite_loop(kw_list, index, written) ==
  IF ~(index < vector_get_size(kw_list))
  THEN [status |-> "ok", written |-> written]
  ELSE IF vector_iget(kw_list, index) = AbortKw
  THEN [status |-> "abort", written |-> written]
  ELSE fwrite_loop(kw_list, index + 1, Append(written, vector_iget(kw_list, index)))

\* The write which starts at the first keyword whatever the offset is.
ecl_file_map_fwrite_all(file_map, offset) == fwrite_loop(file_map.kw_list, 0, <<>>)

ecl_file_map_fwrite(file_map, offset) == fwrite_loop(file_map.kw_list, offset, <<>>)

\* ecl_file_kw_fwrite loads the ecl_kw of every keyword it writes.
RECURSIVE fwrite_loaded(_, _, _)
fwrite_loaded(written, i, cache) ==
  IF ~(i < Len(written))
  THEN cache
  ELSE fwrite_loaded(written, i + 1, ecl_file_kw_get_kw(written[i + 1], cache))

\* ecl_file_fwrite_fortio on a target which the caller has just opened.
ecl_file_fwrite_fortio(offset) ==
  /\ pc = "ready"
  /\ LET w == ecl_file_map_fwrite(heap[active_map], offset)
     IN  /\ pc' = IF w.status = "abort" THEN "aborted" ELSE pc
         /\ target' = w.written
         /\ loaded' = fwrite_loaded(w.written, 0, loaded)
         /\ ret' = Ret("fwrite_fortio", NULL, w.status = "ok")
  /\ UNCHANGED <<fortio, heap, map_list, global_map, active_map, frees>>

\* ecl_file_fwrite: the target is opened by name, written from offset 0 and
\* closed.
ecl_file_fwrite ==
  /\ pc = "ready"
  /\ LET w == ecl_file_map_fwrite(heap[active_map], 0)
     IN  /\ pc' = IF w.status = "abort" THEN "aborted" ELSE pc
         /\ target' = w.written
         /\ loaded' = fwrite_loaded(w.written, 0, loaded)
         /\ ret' = Ret("fwrite", NULL, w.status = "ok")
  /\ UNCHANGED <<fortio, heap, map_list, global_map, active_map, frees>>

\* The request which loads every keyword of the active map.
ecl_file_iget_kw_eager(index) ==
  /\ pc = "ready"
  /\ LET file_kw == ecl_file_iget_file_kw(index)
     IN  /\ pc' = IF file_kw = AbortKw THEN "aborted" ELSE pc
         /\ loaded' = IF file_kw = AbortKw
                      THEN loaded
                      ELSE fwrite_loaded(heap[active_map].kw_list, 0, loaded)
         /\ ret' = Ret("iget_kw", NULL, file_kw # AbortKw)
  /\ target' = <<>>
  /\ UNCHANGED <<fortio, heap, map_list, global_map, active_map, frees>>

\* ecl_file_iget_kw: the ecl_kw of the keyword at index of the active map.
ecl_file_iget_kw(index) ==
  /\ pc = "ready"
  /\ LET file_kw == ecl_file_iget_file_kw(index)
     IN  /\ pc' = IF file_kw = AbortKw THEN "aborted" ELSE pc
         /\ loaded' = IF file_kw = AbortKw THEN loaded ELSE ecl_file_kw_get_kw(file_kw, loaded)
         /\ ret' = Ret("iget_kw", NULL, file_kw # AbortKw)
  /\ target' = <<>>
  /\ UNCHANGED <<fortio, heap, map_list, global_map, active_map, frees>>

\* ecl_file_iget_named_kw: the ecl_kw of occurrence ith of kw in the active map.
ecl_file_iget_named_kw(kw, ith) ==
  /\ pc = "ready"
  /\ LET file_kw == ecl_file_iget_named_file_kw(kw, ith)
     IN  /\ pc' = IF file_kw = AbortKw THEN "aborted" ELSE pc
         /\ loaded' = IF file_kw = AbortKw THEN loaded ELSE ecl_file_kw_get_kw(file_kw, loaded)
         /\ ret' = Ret("iget_named_kw", NULL, file_kw # AbortKw)
  /\ target' = <<>>
  /\ UNCHANGED <<fortio, heap, map_list, global_map, active_map, frees>>

\* The calls on an open file which select a map, load keywords and write
\* them; at most MaxMapsIO maps are made.
NextIO ==
  \/ ecl_file_open
  \/ \E kw \in Keywords, occurence \in Occurences :
       Len(map_list) < MaxMapsIO /\ ecl_file_select_block(kw, occurence)
  \/ \E kw \in Keywords, occurence \in Occurences :
       Len(map_list) < MaxMapsIO /\ get_block(kw, occurence)
  \/ ecl_file_select_global
  \/ \E index \in Occurences : ecl_file_iget_kw(index)
  \/ \E kw \in Keywords, ith \in Occurences : ecl_file_iget_named_kw(kw, ith)
  \/ \E offset \in Occurences : ecl_file_fwrite_fortio(offset)
  \/ ecl_file_fwrite

SpecIO == Init /\ [][NextIO]_vars

\* ecl_file_replace_kw: every line of the body is commented out, so the call
\* returns with nothing searched, replaced, freed or aborted. old_kw is the
\* ecl_kw loaded for the keyword at that offset (an ecl_kw of the file when
\* the offset is in loaded), new_kw is the header of the new ecl_kw.
ecl_file_replace_kw(old_kw, new_kw, insert_copy) ==
  /\ pc = "ready"
  /\ ret' = Ret("replace_kw", NULL, TRUE)
  /\ target' = <<>>
  /\ UNCHANGED <<fortio, pc, heap, map_list, global_map, active_map, loaded, frees>>

\* The calls which load keywords and the call which is to replace one.
NextReplace ==
  \/ ecl_file_open
  \/ \E index \in Occurences : ecl_file_iget_kw(index)
  \/ \E old_kw \in Occurences, new_kw \in Names, insert_copy \in BOOLEAN :
       ecl_file_replace_kw(old_kw, new_kw, insert_copy)

SpecReplace == Init /\ [][NextReplace]_vars

----------------------------------------------------------------------------
\* What the properties are stated with: sequences of handles described by
\* sets of positions, independently of kw_index and of the loops above.

GlobalList == heap[global_map].kw_list

ActiveList == heap[active_map].kw_list

Range(f) == {f[x] : x \in DOMAIN f}

MinOf(S) == CHOOSE x \in S : \A y \in S : x <= y

PositionsOf(list, kw) == {i \in 0 .. Len(list) - 1 : list[i + 1].header = kw}

CountOf(list, kw) == Cardinality(PositionsOf(list, kw))

\* The occurrence number of the record at position p among those of its name.
RankOf(list, p) ==
  Cardinality({q \in PositionsOf(list, list[p + 1].header) : q < p})

\* The position of occurrence k of kw (0 <= k < CountOf(list, kw)).
OccurencePos(list, kw, k) ==
  CHOOSE p \in PositionsOf(list, kw) : RankOf(list, p) = k

\* The end of the block of kw which starts at start: the next position of kw,
\* or the end of the list.
BlockEnd(list, kw, start) ==
  LET later == {p \in PositionsOf(list, kw) : p > start}
  IN  IF later = {} THEN Len(list) ELSE MinOf(later)

BlockRun(list, kw, k) ==
  LET start == OccurencePos(list, kw, k)
  IN  SubSeq(list, start + 1, BlockEnd(list, kw, start))

BlockExists(kw, k) == 0 <= k /\ k < CountOf(GlobalList, kw)

DerivedMaps == Range(map_list) \ {global_map}

TypeOK ==
  /\ pc \in {"unopened", "ready", "aborted", "closed", "leaked", "crashed"}
  /\ map_list \in Seq(Nat)

----------------------------------------------------------------------------
\* C1: for 0 <= k < count_global(D), get_block(D, k) returns a view whose
\* sequence is the run of global handles from the position of occurrence k of
\* D up to, and not including, the next position of D, or up to the end of
\* the global sequence; the handles are in the order of the global map.
C1_BlockIsRun ==
  [][\A D \in Keywords, k \in Occurences :
       (ret'.op = "get_block" /\ get_block(D, k) /\ BlockExists(D, k))
         => /\ ret'.blockmap # NULL
            /\ heap'[ret'.blockmap].kw_list = BlockRun(GlobalList, D, k)]_vars

\* get_block has returned a block of two records or more which ends at the
\* next occurrence of its delimiter, before the end of the global sequence.
C1_Witness ==
  /\ pc = "ready" /\ ret.op = "get_block" /\ ret.ok
  /\ LET b == heap[ret.blockmap].kw_list
     IN  /\ Len(b) >= 2
         /\ b[Len(b)].offset + 1 < Len(GlobalList)
         /\ GlobalList[b[Len(b)].offset + 2].header = b[1].header

\* C2: in the global map and in every derived map, for every name k the
\* list kw_index[k] is strictly increasing and holds exactly the indices i
\* of the map's own kw_list whose header is k; a name without an entry in
\* kw_index is the header of no keyword of the map.
C2_IndexConsistent ==
  pc = "ready" =>
    \A m \in DOMAIN heap :
      LET file_map == heap[m]
      IN  /\ \A k \in DOMAIN file_map.kw_index :
               LET v == file_map.kw_index[k]
               IN  /\ \A a, b \in 1 .. Len(v) : a < b => v[a] < v[b]
                   /\ Range(v) = PositionsOf(file_map.kw_list, k)
          /\ \A k \in Keywords \ DOMAIN file_map.kw_index :
               PositionsOf(file_map.kw_list, k) = {}

\* A derived map which starts after the first global record and has a
\* second record: its positions differ from the file positions of its keywords.
C2_Witness ==
  /\ pc = "ready"
  /\ \E m \in DerivedMaps :
       /\ Len(heap[m].kw_list) >= 2
       /\ heap[m].kw_list[1].offset > 0
       /\ \E k \in DOMAIN heap[m].kw_index : heap[m].kw_index[k] = <<1>>

\* The block of occurrence i of D as ecl_file_get_blockmap derives it now.
BlockOf(D, i) ==
  LET g == ecl_file_get_blockmap(D, i)
  IN  g.heap[g.blockmap].kw_list

RECURSIVE ConcatBlocks(_, _, _)
ConcatBlocks(D, i, n) ==
  IF i >= n THEN <<>> ELSE BlockOf(D, i) \o ConcatBlocks(D, i + 1, n)

\* C3 as stated: when D occurs n >= 1 times, the blocks get_block(D, 0) ..
\* get_block(D, n-1) do not overlap, follow each other without a gap and
\* together cover every position of the global sequence.
C3_PartitionOfAll ==
  pc = "ready" =>
    \A D \in Keywords :
      LET n == CountOf(GlobalList, D)
      IN  n >= 1 =>
            /\ \A i \in 0 .. n - 1 : BlockOf(D, i) # <<>>
            /\ ConcatBlocks(D, 0, n) = GlobalList

\* C3 amended: when D occurs n >= 1 times, block i starts at occurrence i of D
\* and the n blocks, one after the other, are the global sequence from the
\* first occurrence of D to its end: no overlap, no gap, and every position
\* from the first D on is covered (the records before the first D are in no
\* block).
C3_PartitionFromFirst ==
  pc = "ready" =>
    \A D \in Keywords :
      LET n == CountOf(GlobalList, D)
      IN  n >= 1 =>
            /\ \A i \in 0 .. n - 1 :
                 /\ BlockOf(D, i) # <<>>
                 /\ BlockOf(D, i)[1] = GlobalList[OccurencePos(GlobalList, D, i) + 1]
            /\ ConcatBlocks(D, 0, n) =
                 SubSeq(GlobalList, OccurencePos(GlobalList, D, 0) + 1, Len(GlobalList))

\* get_block has returned the last block of a delimiter which occurs twice
\* or more and not at position 0.
C3_Witness ==
  /\ pc = "ready" /\ ret.op = "get_block" /\ ret.ok
  /\ \E D \in Keywords :
       /\ CountOf(GlobalList, D) >= 2
       /\ OccurencePos(GlobalList, D, 0) > 0
       /\ heap[ret.blockmap].kw_list = BlockRun(GlobalList, D, CountOf(GlobalList, D) - 1)

\* C4: whatever map is active, get_block(D, k) and select_block(D, k) have
\* the outcome which the global map, D and k alone determine: not found when
\* k >= count_global(D) and k >= 0, the run of global handles of occurrence k
\* of D when 0 <= k < count_global(D); for k < 0 an empty map when D does not
\* occur and the abort of the index lookup when it does.
C4_DerivedFromGlobal ==
  [][\A D \in Keywords, k \in Occurences :
       (\/ ret'.op = "get_block" /\ get_block(D, k)
        \/ ret'.op = "select_block" /\ ecl_file_select_block(D, k))
         => /\ (k >= 0 /\ k >= CountOf(GlobalList, D)) =>
                 (~ret'.ok /\ ret'.blockmap = NULL /\ pc' = "ready")
            /\ BlockExists(D, k) =>
                 /\ ret'.ok /\ pc' = "ready"
                 /\ heap'[ret'.blockmap].kw_list = BlockRun(GlobalList, D, k)
            /\ (k < 0 /\ CountOf(GlobalList, D) = 0) =>
                 (ret'.ok /\ pc' = "ready" /\ heap'[ret'.blockmap].kw_list = <<>>)
            /\ (k < 0 /\ CountOf(GlobalList, D) > 0) => pc' = "aborted"]_vars

\* A block was derived while another block was active, and its delimiter
\* is not a keyword of the active block.
C4_Witness ==
  /\ pc = "ready" /\ ret.op \in {"get_block", "select_block"} /\ ret.ok
  /\ Len(map_list) = 3
  /\ ret.blockmap = 3
  /\ heap[2].kw_list # <<>> /\ heap[3].kw_list # <<>>
  /\ ~ecl_file_map_has_kw(heap[2], heap[3].kw_list[1].header)
  /\ active_map = IF ret.op = "get_block" THEN 2 ELSE 3

\* C5 as stated: select_block(name, occurrence) returns true exactly when the
\* block exists in the global map, and then the new view is in map_list and
\* is the active map; when it returns false, active_map and map_list are as
\* they were before the call.
C5_SelectBlock ==
  [][\A D \in Keywords, k \in Occurences :
       (ret'.op = "select_block" /\ ecl_file_select_block(D, k))
         => /\ ret'.ok <=> BlockExists(D, k)
            /\ ret'.ok =>
                 /\ ret'.blockmap \in Range(map_list') \ Range(map_list)
                 /\ active_map' = ret'.blockmap
            /\ ~ret'.ok => UNCHANGED <<active_map, map_list>>]_vars

\* C6: between open and close, active_map is not NULL and is the global map
\* or a derived map held in map_list, and the map it refers to is not freed.
C6_ActiveMapValid ==
  pc = "ready" =>
    /\ active_map # NULL
    /\ active_map \in Range(map_list)
    /\ active_map \in DOMAIN heap
    /\ global_map \in Range(map_list)
    /\ active_map # global_map => ~heap[active_map].owner

\* A select_block has failed while a block, derived before another one, was
\* the active map.
C6_Witness ==
  /\ pc = "ready" /\ ret.op = "select_block" /\ ~ret.ok
  /\ Len(map_list) = 3
  /\ active_map = 2

\* C7: for every valid position p of the active map, ecl_file_iget_occurence(p)
\* does not abort and is the one ith with 0 <= ith < count(name_at(p)) for
\* which global_index(name_at(p), ith) = p.
C7_ReverseOccurence ==
  pc = "ready" =>
    \A p \in 0 .. ecl_file_get_size - 1 :
      LET name == ecl_file_map_iget_header(heap[active_map], p)
          ith  == ecl_file_iget_occurence(p)
      IN  /\ ith # ABORT
          /\ 0 <= ith /\ ith < ecl_file_get_num_named_kw(name)
          /\ \A j \in 0 .. ecl_file_get_num_named_kw(name) - 1 :
               (ecl_file_map_get_global_index(heap[active_map], name, j) = p) <=> (j = ith)

\* A block is active and one of its records is a second occurrence of its
\* name in the block.
C7_Witness ==
  /\ pc = "ready" /\ active_map # global_map
  /\ \E p \in 0 .. ecl_file_get_size - 1 : ecl_file_iget_occurence(p) = 1

\* The names of seq in the order of their first occurrence.
FirstPos(seq, kw) == MinOf(PositionsOf(seq, kw))

NamesOf(seq) == {seq[i].header : i \in 1 .. Len(seq)}

DistinctAt(seq, i) ==
  CHOOSE kw \in NamesOf(seq) :
    Cardinality({k2 \in NamesOf(seq) : FirstPos(seq, k2) < FirstPos(seq, kw)}) = i

\* All the queries of the ecl_file answer for the sequence seq of handles.
QueriesReflect(seq) ==
  /\ ecl_file_get_size = Len(seq)
  /\ \A i \in 0 .. Len(seq) - 1 :
       /\ ecl_file_iget_file_kw(i) = seq[i + 1]
       /\ ecl_file_iget_occurence(i) = RankOf(seq, i)
  /\ \A kw \in Keywords :
       /\ ecl_file_has_kw(kw) <=> (kw \in NamesOf(seq))
       /\ ecl_file_get_num_named_kw(kw) = CountOf(seq, kw)
       /\ \A j \in 0 .. CountOf(seq, kw) - 1 :
            ecl_file_iget_named_file_kw(kw, j) = seq[OccurencePos(seq, kw, j) + 1]
  /\ ecl_file_get_num_distinct_kw = Cardinality(NamesOf(seq))
  /\ \A i \in 0 .. Cardinality(NamesOf(seq)) - 1 :
       ecl_file_iget_distinct_kw(i) = DistinctAt(seq, i)

\* C8: after a successful select_block whose block starts at global position
\* s and has length L, size() = L, iget(i) is the handle at global position
\* s + i, and has, count, distinct_count, distinct_name_at, iget_named and
\* reverse_occurrence answer for the records of the block only, with
\* block-local positions; after select_global they answer for the whole file.
C8_QueriesFromActiveMap ==
  pc = "ready" =>
    /\ (ret.op = "select_block" /\ ret.ok /\ ActiveList # <<>>) =>
         LET s == ActiveList[1].offset
             D == GlobalList[s + 1].header
             L == BlockEnd(GlobalList, D, s) - s
         IN  QueriesReflect([i \in 1 .. L |-> GlobalList[s + i]])
    /\ ret.op = "select_global" => QueriesReflect(GlobalList)

\* A block selected with success starts after the first global record, has
\* two records or more, and holds fewer records of some name than the file.
C8_Witness ==
  /\ pc = "ready" /\ ret.op = "select_block" /\ ret.ok
  /\ Len(ActiveList) >= 2
  /\ ActiveList[1].offset > 0
  /\ \E kw \in Keywords :
       /\ ecl_file_get_num_named_kw(kw) >= 1
       /\ ecl_file_get_num_named_kw(kw) < CountOf(GlobalList, kw)

\* C9: for every name and every active map, has(name) and count(name) do not
\* fail; count(name) is the number of positions of the active sequence whose
\* name is name, has(name) holds iff count(name) >= 1, and for a name which
\* does not occur has(name) is false and count(name) is 0.
C9_HasAndCount ==
  pc = "ready" =>
    \A kw \in Keywords :
      /\ ecl_file_has_kw(kw) \in BOOLEAN
      /\ ecl_file_get_num_named_kw(kw) # ABORT
      /\ ecl_file_get_num_named_kw(kw) = CountOf(ActiveList, kw)
      /\ ecl_file_has_kw(kw) <=> (ecl_file_get_num_named_kw(kw) >= 1)
      /\ kw \notin NamesOf(ActiveList) =>
           (~ecl_file_has_kw(kw) /\ ecl_file_get_num_named_kw(kw) = 0)

\* A block is active in which a name of the global map does not occur and
\* another name does.
C9_Witness ==
  /\ pc = "ready" /\ active_map # global_map
  /\ \E kw \in Keywords :
       /\ ~ecl_file_has_kw(kw)
       /\ CountOf(GlobalList, kw) >= 1
  /\ \E kw \in Keywords : ecl_file_get_num_named_kw(kw) >= 1

\* C10 as stated: for a name which never occurs in the global map, get_block
\* returns NULL and select_block false for every occurrence number, and no
\* map is created, put in map_list or made active.
C10_AbsentNotFound ==
  [][\A D \in Keywords, k \in Occurences :
       (/\ \/ ret'.op = "get_block" /\ get_block(D, k)
           \/ ret'.op = "select_block" /\ ecl_file_select_block(D, k)
        /\ CountOf(GlobalList, D) = 0)
         => /\ ret'.blockmap = NULL /\ ~ret'.ok
            /\ UNCHANGED <<heap, map_list, active_map>>]_vars

\* C11: iget_named(name, ith) on the active map returns the handle at position
\* kw_index[name][ith] when name is a name of the active map and
\* 0 <= ith < count(name); when name is absent from the active map (also when
\* it occurs in the global map) or ith is out of range the call aborts and
\* returns no handle.
C11_IgetNamed ==
  pc = "ready" =>
    \A kw \in Keywords, ith \in Occurences :
      LET r == ecl_file_iget_named_file_kw(kw, ith)
      IN  IF kw \in NamesOf(ActiveList) /\ 0 <= ith /\ ith < CountOf(ActiveList, kw)
          THEN /\ r # AbortKw
               /\ r = ActiveList[heap[active_map].kw_index[kw][ith + 1] + 1]
               /\ r = ActiveList[OccurencePos(ActiveList, kw, ith) + 1]
          ELSE r = AbortKw

\* A block which starts after the first global record is active and lacks
\* a name of the global map.
C11_Witness ==
  /\ pc = "ready" /\ active_map # global_map
  /\ ActiveList # <<>> /\ ActiveList[1].offset > 0
  /\ \E kw \in Keywords :
       kw \notin NamesOf(ActiveList) /\ kw \in NamesOf(GlobalList)

\* The number of headers of the stream read with success before the first
\* read which fails.
HeadersRead(stream) ==
  MinOf({i \in 1 .. Len(stream) : stream[i] = CutHeader} \cup {Len(stream) + 1}) - 1

\* C12: open scans from stream offset 0, appends one handle per header read
\* with success, in file order, and stops at the first header read which
\* fails; the global map holds exactly the records before that point, its
\* index is consistent, active_map is the global map and open reports no
\* error.
C12_ScanStopsAtFailedHeader ==
  ret.op = "open" =>
    /\ pc = "ready"
    /\ active_map = global_map
    /\ map_list = <<global_map>>
    /\ heap[global_map].owner
    /\ GlobalList = [i \in 1 .. HeadersRead(fortio) |->
                       [header |-> fortio[i], offset |-> i - 1]]
    /\ \A k \in Keywords :
         IF k \in DOMAIN heap[global_map].kw_index
         THEN /\ Range(heap[global_map].kw_index[k]) = PositionsOf(GlobalList, k)
              /\ Len(heap[global_map].kw_index[k]) = CountOf(GlobalList, k)
         ELSE PositionsOf(GlobalList, k) = {}

\* A stream of three complete records and a header which is cut off has
\* been opened.
C12_Witness ==
  /\ ret.op = "open"
  /\ Len(fortio) = 4 /\ fortio[4] = CutHeader
  /\ Len(GlobalList) = 3

\* C14: close() closes the stream once and frees the global map and every
\* derived map once; every ecl_file_kw is freed once, by the global map which
\* owns it, and by no derived view, however many blocks were derived and
\* whichever map is active at close.
C14_CloseFreesOnce ==
  [][(ret'.op = "close" /\ pc = "ready")
       => frees' = SetToBag(
            {[kind |-> "fortio", id |-> 0], [kind |-> "ecl_file", id |-> 0]}
            \cup {[kind |-> "ecl_file_map", id |-> m] : m \in DOMAIN heap}
            \cup {[kind |-> "ecl_file_kw", id |-> GlobalList[i].offset] :
                     i \in 1 .. Len(GlobalList)})]_vars

\* The file was closed with two derived maps in map_list and the first of
\* them active, and two keywords or more were freed.
C14_Witness ==
  /\ pc = "closed" /\ ret.op = "close"
  /\ active_map = 2
  /\ Cardinality({o \in BagToSet(frees) : o.kind = "ecl_file_map"}) = 3
  /\ Cardinality({o \in BagToSet(frees) : o.kind = "ecl_file_kw"}) >= 2

C15_OpenBlockReturnsFile ==
  [][(ret'.op = "open_block" /\ pc = "unopened" /\ pc' # "aborted")
       => \/ ret'.ok /\ active_map' = 2 /\ 2 \in DOMAIN heap'
          \/ ~ret'.ok /\ pc' = "closed"]_vars

\* C16: a write with offset >= 0 emits the records of the active map at the
\* local positions offset, offset + 1, ..., size - 1, each once and in the
\* order of the sequence, and nothing when offset >= size; with a block active
\* these are records of the block only; the active map, the global map and
\* the registry are left as they were.
C16_WriteFromOffset ==
  [][/\ \A offset \in Occurences :
          (ret'.op = "fwrite_fortio" /\ ecl_file_fwrite_fortio(offset) /\ offset >= 0)
            => /\ Len(target') = (IF offset < Len(ActiveList)
                                  THEN Len(ActiveList) - offset ELSE 0)
               /\ \A i \in 1 .. Len(target') : target'[i] = ActiveList[offset + i]
               /\ pc' = "ready"
               /\ UNCHANGED <<heap, map_list, global_map, active_map>>
     /\ (ret'.op = "fwrite" /\ ecl_file_fwrite)
          => /\ target' = ActiveList
             /\ pc' = "ready"
             /\ UNCHANGED <<heap, map_list, global_map, active_map>>]_vars

\* A block which is shorter than the global sequence is active and a write
\* from an offset inside it has emitted some, and not all, of its records.
C16_Witness ==
  /\ pc = "ready" /\ ret.op = "fwrite_fortio"
  /\ active_map # global_map
  /\ Len(ActiveList) < Len(GlobalList)
  /\ target # <<>> /\ Len(target) < Len(ActiveList)

\* C17: the stream written from the active map M with offset 0, scanned
\* again, gives a global map of the length of M, with the distinct names of M
\* in the same order and with the count of M for every name.
C17_RoundTrip ==
  (pc = "ready" /\ ret.op = "fwrite")
    => LET written == [i \in 1 .. Len(target) |-> ecl_file_kw_get_header(target[i])]
           again   == ecl_file_scan(written, ecl_file_map_alloc(TRUE))
           M       == heap[active_map]
       IN  /\ ecl_file_map_get_size(again) = ecl_file_map_get_size(M)
           /\ again.distinct_kw = M.distinct_kw
           /\ \A kw \in Keywords :
                ecl_file_map_get_num_named_kw(again, kw) = ecl_file_map_get_num_named_kw(M, kw)

\* A block which does not start the file, and whose first name is not the
\* first name of the file, was written with ecl_file_fwrite.
C17_Witness ==
  /\ pc = "ready" /\ ret.op = "fwrite"
  /\ active_map # global_map
  /\ Len(target) >= 2 /\ target[1].offset > 0
  /\ heap[active_map].distinct_kw # heap[global_map].distinct_kw

\* C18: open loads no ecl_kw, and neither do get_block, select_block and
\* select_global; an ecl_kw is loaded only by ecl_file_iget_kw or
\* ecl_file_iget_named_kw of its keyword, or by a write of its keyword.
C18_LazyPayloads ==
  [][/\ ret'.op = "open" => loaded' = {}
     /\ loaded' # loaded
          => ret'.op \in {"iget_kw", "iget_named_kw", "fwrite_fortio", "fwrite"}
     /\ \A index \in Occurences :
          (ret'.op = "iget_kw" /\ loaded' # loaded /\ ecl_file_iget_kw(index))
            => loaded' \ loaded
                 \subseteq {ActiveList[p + 1].offset : p \in {index} \cap (0 .. Len(ActiveList) - 1)}
     /\ \A kw \in Keywords, ith \in Occurences :
          (ret'.op = "iget_named_kw" /\ loaded' # loaded /\ ecl_file_iget_named_kw(kw, ith))
            => loaded' \ loaded
                 \subseteq {ActiveList[p + 1].offset :
                              p \in {q \in PositionsOf(ActiveList, kw) : RankOf(ActiveList, q) = ith}}
     /\ ret'.op \in {"fwrite_fortio", "fwrite"}
          => loaded' \ loaded \subseteq {target'[i].offset : i \in 1 .. Len(target')}]_vars

\* After the selection of a block of a file of three records, a named value
\* request has loaded one ecl_kw, and the others are not loaded.
C18_Witness ==
  /\ pc = "ready" /\ ret.op = "iget_named_kw"
  /\ Len(GlobalList) = 3 /\ Len(map_list) >= 2
  /\ Cardinality(loaded) = 1

\* The sum of the counts of the distinct names i, i + 1, ... of a map.
RECURSIVE SumOfCounts(_, _)
SumOfCounts(file_map, i) ==
  IF ~(i < ecl_file_map_get_num_distinct_kw(file_map))
  THEN 0
  ELSE ecl_file_map_get_num_named_kw(file_map, ecl_file_map_iget_distinct_kw(file_map, i))
         + SumOfCounts(file_map, i + 1)

\* C19: in every map, global or derived, distinct_kw holds each name of the
\* sequence once, in the order of first occurrence, and its names are the keys
\* of kw_index; so the number of distinct names is the number of different
\* names, and the counts of the distinct names add up to the size.
C19_DistinctKw ==
  pc = "ready" =>
    \A m \in DOMAIN heap :
      LET file_map == heap[m]
          distinct == file_map.distinct_kw
      IN  /\ \A a, b \in 1 .. Len(distinct) :
               a < b => /\ distinct[a] # distinct[b]
                        /\ FirstPos(file_map.kw_list, distinct[a])
                             < FirstPos(file_map.kw_list, distinct[b])
          /\ Range(distinct) = NamesOf(file_map.kw_list)
          /\ Range(distinct) = DOMAIN file_map.kw_index
          /\ ecl_file_map_get_num_distinct_kw(file_map)
               = Cardinality(NamesOf(file_map.kw_list))
          /\ SumOfCounts(file_map, 0) = ecl_file_map_get_size(file_map)

\* A derived map with the two names of the global map, whose order of first
\* occurrence in it is not their order in the global map.
C19_Witness ==
  /\ pc = "ready"
  /\ \E m \in DerivedMaps :
       /\ Len(heap[m].distinct_kw) = 2
       /\ heap[m].distinct_kw # heap[global_map].distinct_kw
       /\ Len(heap[global_map].distinct_kw) = 2

\* C20: for the file SEQHDR, MINISTEP, PARAMS, MINISTEP, PARAMS, MINISTEP,
\* PARAMS, with the global map active: the counts of SEQHDR, MINISTEP and
\* PARAMS are 1, 3 and 3; there are 3 distinct names, in this order; the index
\* is SEQHDR: 0, MINISTEP: 1, 3, 5, PARAMS: 2, 4, 6; the block of SEQHDR 0
\* spans all 7 records; the occurrence number of record 2 is 0 and that of
\* record 5 is 2.
C20_Scenario ==
  (pc = "ready" /\ active_map = global_map)
    => /\ ecl_file_get_num_named_kw("SEQHDR") = 1
       /\ ecl_file_get_num_named_kw("MINISTEP") = 3
       /\ ecl_file_get_num_named_kw("PARAMS") = 3
       /\ ecl_file_get_num_distinct_kw = 3
       /\ ecl_file_iget_distinct_kw(0) = "SEQHDR"
       /\ ecl_file_iget_distinct_kw(1) = "MINISTEP"
       /\ ecl_file_iget_distinct_kw(2) = "PARAMS"
       /\ DOMAIN heap[global_map].kw_index = {"SEQHDR", "MINISTEP", "PARAMS"}
       /\ heap[global_map].kw_index["SEQHDR"] = <<0>>
       /\ heap[global_map].kw_index["MINISTEP"] = <<1, 3, 5>>
       /\ heap[global_map].kw_index["PARAMS"] = <<2, 4, 6>>
       /\ LET block == ecl_file_map_alloc_blockmap(heap[global_map], "SEQHDR", 0)
          IN  /\ block.status = "ok"
              /\ block.map.kw_list = GlobalList
              /\ Len(block.map.kw_list) = 7
       /\ (ret.op = "get_block" /\ ret.ok /\ heap[ret.blockmap].kw_list[1].header = "SEQHDR")
            => heap[ret.blockmap].kw_list = GlobalList
       /\ ecl_file_iget_occurence(2) = 0
       /\ ecl_file_iget_occurence(5) = 2

\* get_block has returned the block of SEQHDR, of 7 records, while the global
\* map of the file of the scenario is active.
C20_Witness ==
  /\ fortio = ScenarioStream
  /\ pc = "ready" /\ active_map = global_map
  /\ ret.op = "get_block" /\ ret.ok
  /\ Len(heap[ret.blockmap].kw_list) = 7

\* C21: after the scan no select_block, get_block, select_global, value
\* request or write changes the global map (its sequence, kw_index and
\* distinct_kw); get_block leaves the active map as it was; a view is not
\* changed once it is made, its handles are handles of the global map, it
\* does not own them, and none of these calls frees anything.
C21_Frame ==
  [][pc = "ready"
       => /\ global_map' = global_map
          /\ \A m \in DOMAIN heap : m \in DOMAIN heap' /\ heap'[m] = heap[m]
          /\ ret'.op = "get_block" => active_map' = active_map
          /\ \A m \in DOMAIN heap' \ DOMAIN heap :
               /\ ~heap'[m].owner
               /\ Range(heap'[m].kw_list) \subseteq Range(GlobalList)
          /\ frees' = frees]_vars

\* After a value request has loaded a keyword, get_block has returned a view
\* of two records or more, and the global map is still the active map.
C21_Witness ==
  /\ pc = "ready" /\ ret.op = "get_block" /\ ret.ok
  /\ active_map = global_map
  /\ Len(heap[ret.blockmap].kw_list) >= 2
  /\ loaded # {}

\* C22: map_list holds the global map from open on; a get_block or
\* select_block which succeeds appends one new map, also when the same block
\* was asked for before, and one which fails appends nothing; nothing is
\* removed before close, so every map of map_list stays valid until close and
\* map_list grows by one with every successful block request.
C22_Registry ==
  [][/\ ret'.op = "open" => map_list' = <<global_map'>>
     /\ pc = "ready"
          => /\ Len(map_list) >= 1 /\ map_list[1] = global_map
             /\ Range(map_list) = DOMAIN heap
             /\ Cardinality(Range(map_list)) = Len(map_list)
             /\ (ret'.op \in {"get_block", "select_block"} /\ ret'.ok)
                  => /\ ret'.blockmap \notin Range(map_list)
                     /\ ret'.blockmap \in DOMAIN heap'
                     /\ map_list' = Append(map_list, ret'.blockmap)
             /\ (ret'.op \in {"get_block", "select_block"} /\ ~ret'.ok)
                  => map_list' = map_list
             /\ ret'.op = "select_global" => map_list' = map_list
             /\ ret'.op # "close"
                  => \A i \in 1 .. Len(map_list) :
                       map_list'[i] = map_list[i] /\ heap'[map_list[i]] = heap[map_list[i]]]_vars

\* The same block was selected twice: map_list holds the global map and two
\* maps with the same keywords.
C22_Witness ==
  /\ pc = "ready" /\ ret.op = "select_block" /\ ret.ok
  /\ Len(map_list) = 3
  /\ heap[map_list[2]].kw_list = heap[map_list[3]].kw_list
  /\ heap[map_list[3]].kw_list # <<>>

\* C23: select_global, with the global map or a block active, makes the
\* global map the active map; a second select_global changes nothing more;
\* map_list and the maps derived before are left as they were, and every
\* block derived afterwards has the content it had before.
C23_SelectGlobal ==
  [][(ret'.op = "select_global" /\ pc = "ready")
       => /\ active_map' = global_map
          /\ active_map' = global_map'
          /\ pc' = "ready"
          /\ UNCHANGED <<global_map, heap, map_list, frees>>
          /\ \A D \in Keywords, k \in Occurences :
               ecl_file_map_alloc_blockmap(heap'[global_map'], D, k)
                 = ecl_file_map_alloc_blockmap(heap[global_map], D, k)]_vars

\* select_global was called on a file with two block maps in map_list, the
\* first of them of two records or more.
C23_Witness ==
  /\ pc = "ready" /\ ret.op = "select_global"
  /\ active_map = global_map
  /\ Len(map_list) = 3
  /\ Len(heap[map_list[2]].kw_list) >= 2

\* C24: ecl_file_replace_kw with an old_kw which the file holds discards it
\* and puts new_kw (or a copy of it) in its place, with the index rebuilt;
\* with an old_kw which the file does not hold it aborts.
C24_ReplaceKw ==
  [][\A old_kw \in Occurences, new_kw \in Names, insert_copy \in BOOLEAN :
       (ret'.op = "replace_kw" /\ ecl_file_replace_kw(old_kw, new_kw, insert_copy))
         => IF old_kw \in loaded
            THEN /\ pc' = "ready"
                 /\ old_kw \notin loaded'
                 /\ \E i \in 1 .. Len(GlobalList) :
                      /\ GlobalList[i].offset = old_kw
                      /\ heap'[global_map'].kw_list[i].header = new_kw
                 /\ PositionsOf(heap'[global_map'].kw_list, new_kw)
                      = Range(heap'[global_map'].kw_index[new_kw])
            ELSE pc' = "aborted"]_vars

C26_BlockShape ==
  [][\A D \in Keywords, k \in 0 .. MaxLen :
       (/\ ret'.op \in {"get_block", "select_block"} /\ ret'.ok
        /\ \/ ret'.op = "get_block" /\ get_block(D, k)
           \/ ret'.op = "select_block" /\ ecl_file_select_block(D, k))
         => LET view == heap'[ret'.blockmap]
            IN  /\ ecl_file_map_get_size(view) >= 1
                /\ ecl_file_map_iget_header(view, 0) = D
                /\ ecl_file_map_get_num_named_kw(view, D) = 1
                /\ ecl_file_map_iget_occurence(view, 0) = 0
                /\ ecl_file_map_get_size(view)
                     <= ecl_file_map_get_size(heap[global_map])
                          - ecl_file_map_get_global_index(heap[global_map], D, k)
                /\ ret'.op = "select_block" => active_map' = ret'.blockmap]_vars

\* select_block has made active the block of a second occurrence of its
\* delimiter, which ends before the end of the file at the third.
C26_Witness ==
  /\ pc = "ready" /\ ret.op = "select_block" /\ ret.ok
  /\ active_map = ret.blockmap
  /\ ActiveList # <<>> /\ ActiveList[1].offset > 0
  /\ RankOf(GlobalList, ActiveList[1].offset) = 1
  /\ ActiveList[Len(ActiveList)].offset < Len(GlobalList) - 1
====
